---- MODULE Spec2Model ----
(***************************************************************************)
(* A model of ecspresso.go: the rollback-target resolver                   *)
(* (FindRollbackTarget), the waiter arithmetic of WaitServiceStable, and   *)
(* the background render loops of WaitServiceStable / WaitRunTask.         *)
(***************************************************************************)
EXTENDS Integers, Sequences, FiniteSets, TLC

\* ------------------------------------------------------------------ bounds
\* Revisions of the family are drawn from 1..MaxRev.
MaxRev == 4
\* The remote listing serves pages of 1..MaxServerPage ARNs (never more than
\* MaxResults).
MaxServerPage == 3
\* Cap on the number of ListTaskDefinitions calls of one resolution.
MaxCalls == 6
\* Configured timeouts are drawn from -MaxTimeout..MaxTimeout (seconds).
MaxTimeout == 47
\* Event creation times are drawn from 0..MaxTime, wait start times from
\* 1..MaxTime-1 (so that events before, at and after the start exist).
MaxTime == 2
\* A service record carries at most MaxEvents events and MaxDeps deployments.
MaxEvents == 2
MaxDeps == 1
\* A log response carries at most MaxLogs records.
MaxLogs == 2
\* Ticks delivered while the wait's context is live.
MaxTicks == 2
\* DescribeScalableTargets lists at most MaxTargets scalable targets.
MaxTargets == 3
\* Registrations followed from a loaded definition to the one registered from it.
MaxRegistrations == 2
\* A stopped task has at most MaxContainers containers.
MaxContainers == 2
\* A service definition gives a desired count of at most MaxDesiredCount.
MaxDesiredCount == 2

\* -------------------------------------------------------- program constants
\* MaxResults: aws.Int64(100)
MaxResults == 100
\* const delay = 15 * time.Second, in seconds
delay == 15

VARIABLES
    \* FindRollbackTarget
    history,            \* the family's task definition ARNs, newest first
    taskDefinitionArn,  \* the argument
    serverPage,         \* how many ARNs the remote listing puts in a page
    found,              \* var found bool
    nextToken,          \* var nextToken *string
    frtPc,              \* "loop" | "done"
    frtRet,             \* the (string, error) returned
    calls,              \* ListTaskDefinitions calls issued so far
    \* WaitServiceStable / WaitRunTask
    kind,               \* "service" (WaitServiceStable) | "task" (WaitRunTask)
    isTerminal,         \* var isTerminal
    startedAt,          \* the startedAt argument
    lc,                 \* the *ecs.LogConfiguration argument of WaitRunTask
    timeout,            \* d.config.Timeout
    attempts,           \* the value given to request.WithWaiterMaxAttempts
    mpc,                \* position of the primary flow
    waitRes,            \* what the platform's WaitUntil... call returned
    ret,                \* what the wait function returned
    ctxDone,            \* the command's context (d.Start) has passed its deadline
    cancelled,          \* cancel() of waitCtx has run
    rpc,                \* position of the render goroutine
    tickReady,          \* the time.Tick channel (capacity 1) holds a tick
    fires,              \* ticks delivered while waitCtx was live
    lines,              \* var lines int of the render goroutine
    inflightLive,       \* waitCtx was live when the fetch in flight was issued
    tickErr,            \* the error of the last fetch, which the loop discards
    resp,               \* the response of the fetch of this iteration
    printed,            \* lines the last fetch wrote to standard output
    written,            \* what the last step wrote to standard output
    elapsed,            \* a tick interval has gone by since waitCtx was done
    waiterOpts,         \* "none" | "explicit" | "defaults": the waiter options given
    polls,              \* polls of the platform wait that found the service unstable
    \* suspendAutoScaling
    suspend,            \* the suspend argument
    scalableTargets,    \* out.ScalableTargets
    asPc,               \* "describe" | "loop" | "done"
    asIdx,              \* position of the range loop in out.ScalableTargets
    registered,         \* the RegisterScalableTarget requests issued, in order
    remote,             \* the platform's suspended state of each target
    asRet,              \* the error returned
    \* RegisterTaskDefinition
    td,                 \* the *ecs.TaskDefinition argument
    newTd,              \* out.TaskDefinition
    regInputs,          \* the RegisterTaskDefinitionInput requests issued, in order
    latestRevision,     \* the platform's latest revision of the family
    tdPc,               \* "idle" | "loaded" | "registered" | "failed"
    \* Create / Delete / Run / Register / Wait
    cmd,                \* the command
    opt,                \* its options
    cpc,                \* position of the command
    remoteCalls,        \* the mutating remote calls issued, in order
    cmdRet,             \* the error the command returned, "none" while it runs
    typed,              \* what was typed at the prompt of Delete
    taskOut,            \* what DescribeTasks answers for the stopped task
    watchContainer,     \* opt.WatchContainer
    \* LoadServiceDefinition
    svdPath,            \* the path argument
    svdFile,            \* what the loader decodes from the file into c
    loaderErr,          \* d.loader.LoadWithEnvJSON fails
    svd,                \* the *ecs.CreateServiceInput returned
    svdErr,             \* the error returned
    svdPc               \* "idle" | "start" | "done"

rbVars == <<history, taskDefinitionArn, serverPage, found, nextToken, frtPc,
            frtRet, calls>>
wtVars == <<kind, isTerminal, startedAt, lc, timeout, attempts, mpc, waitRes,
            ret, ctxDone, cancelled, rpc, tickReady, fires, lines,
            inflightLive, tickErr, resp, printed, written, elapsed,
            waiterOpts, polls>>
asVars == <<suspend, scalableTargets, asPc, asIdx, registered, remote, asRet>>
tdVars == <<td, newTd, regInputs, latestRevision, tdPc>>
cmdVars == <<cmd, opt, cpc, remoteCalls, cmdRet, typed, taskOut, watchContainer>>
svdVars == <<svdPath, svdFile, loaderErr, svd, svdErr, svdPc>>
vars == <<rbVars, wtVars, asVars, tdVars, cmdVars, svdVars>>

\* The variables of the wait functions other than what the last step wrote.
wtState == <<kind, isTerminal, startedAt, lc, timeout, attempts, mpc, waitRes,
             ret, ctxDone, cancelled, rpc, tickReady, fires, lines,
             inflightLive, tickErr, resp, printed, elapsed, waiterOpts, polls>>

Min(a, b) == IF a <= b THEN a ELSE b

\* =================================================== FindRollbackTarget ====
NilToken == 0
NoArn == 0
ErrNone == "nil"
ErrList == "failed to list taskdefinitions"
ErrNotFound == "rollback target is not found"

Revisions == 1 .. MaxRev

\* The strictly descending listing of a set of revisions.
RECURSIVE Descending(_)
Descending(S) ==
    IF S = {} THEN <<>>
    ELSE LET m == CHOOSE x \in S : \A y \in S : y <= x
         IN <<m>> \o Descending(S \ {m})

\* Length of the pages the listing serves for MaxResults: aws.Int64(100).
PageLen == Min(MaxResults, serverPage)

\* ecs.ListTaskDefinitions with Sort DESC: the page that starts at the cursor
\* (the first page for a nil token) and the cursor of the page after it, nil
\* on the last page.
ListTaskDefinitions(token) ==
    LET start == IF token = NilToken THEN 1 ELSE token
        last == Min(start + PageLen - 1, Len(history))
    IN [TaskDefinitionArns |-> SubSeq(history, start, last),
        NextToken |-> IF last < Len(history) THEN last + 1 ELSE NilToken]

\* The scan with the two tests of the loop body merged: the match itself is
\* returned.
RECURSIVE ScanFrom_ReturnsMatch(_, _, _, _)
ScanFrom_ReturnsMatch(arns, i, f, target) ==
    IF i > Len(arns) THEN [hit |-> FALSE, found |-> f, arn |-> NoArn]
    ELSE IF f \/ arns[i] = target THEN [hit |-> TRUE, found |-> TRUE, arn |-> arns[i]]
    ELSE ScanFrom_ReturnsMatch(arns, i + 1, f, target)

\* for _, tdArn := range out.TaskDefinitionArns {
\*     if found { return *tdArn, nil }; if *tdArn == taskDefinitionArn { found = true } }
RECURSIVE ScanFrom(_, _, _, _)
ScanFrom(arns, i, f, target) ==
    IF i > Len(arns) THEN [hit |-> FALSE, found |-> f, arn |-> NoArn]
    ELSE IF f THEN [hit |-> TRUE, found |-> f, arn |-> arns[i]]
    ELSE ScanFrom(arns, i + 1, arns[i] = target, target)

InitRollback ==
    /\ history \in {Descending(S) : S \in SUBSET Revisions}
    /\ taskDefinitionArn \in Revisions
    /\ serverPage \in 1 .. MaxServerPage
    /\ found = FALSE
    /\ nextToken = NilToken
    /\ frtPc = "loop"
    /\ frtRet = [arn |-> NoArn, err |-> ErrNone]
    /\ calls = 0

\* One iteration of the for loop: the listing call, then the scan of its page.
FindRollbackTarget_Loop ==
    /\ frtPc = "loop"
    /\ calls < MaxCalls
    /\ calls' = calls + 1
    /\ \E failed \in BOOLEAN :
        IF failed
        THEN /\ frtRet' = [arn |-> NoArn, err |-> ErrList]
             /\ frtPc' = "done"
             /\ UNCHANGED <<found, nextToken>>
        ELSE LET out == ListTaskDefinitions(nextToken)
                 r == ScanFrom(out.TaskDefinitionArns, 1, found, taskDefinitionArn)
             IN IF Len(out.TaskDefinitionArns) = 0
                THEN /\ frtRet' = [arn |-> NoArn, err |-> ErrNotFound]
                     /\ frtPc' = "done"
                     /\ UNCHANGED <<found, nextToken>>
                ELSE /\ nextToken' = out.NextToken
                     /\ found' = r.found
                     /\ IF r.hit
                        THEN /\ frtRet' = [arn |-> r.arn, err |-> ErrNone]
                             /\ frtPc' = "done"
                        ELSE UNCHANGED <<frtRet, frtPc>>
    /\ UNCHANGED <<history, taskDefinitionArn, serverPage>>
    /\ UNCHANGED <<wtVars, asVars, tdVars, cmdVars, svdVars>>

\* ============================================ WaitServiceStable: waiter ====
\* Go's integer division truncates toward zero, and % takes the dividend's sign.
GoDiv(a, b) == IF a >= 0 THEN a \div b ELSE -((-a) \div b)
GoMod(a, b) == a - b * GoDiv(a, b)

\* The arithmetic without the increment for a remainder.
WaiterMaxAttempts_NoIncrement(t) == GoDiv(t, delay) + 1

\* The arithmetic that rounds up instead of adding one.
WaiterMaxAttempts_RoundUp(t) ==
    IF GoMod(t, delay) > 0 THEN GoDiv(t, delay) + 1 ELSE GoDiv(t, delay)

\* attempts := int((d.config.Timeout / delay)) + 1; if (Timeout % delay) > 0 { attempts++ }
WaiterMaxAttempts(t) ==
    IF GoMod(t, delay) > 0 THEN GoDiv(t, delay) + 1 + 1 ELSE GoDiv(t, delay) + 1

\* =========================== WaitServiceStable / WaitRunTask: render loop ====
\* var TerminalWidth = 90
TerminalWidth == 90

Times == 0 .. MaxTime
\* Message lengths: one that fits a terminal line and one that wraps.
MsgLens == {TerminalWidth \div 2, TerminalWidth + 10}

Tok(w, at) == [w |-> w, at |-> at]

RECURSIVE Repeat(_, _)
Repeat(x, n) == IF n <= 0 THEN <<>> ELSE <<x>> \o Repeat(x, n - 1)

\* Sequences of at most n elements of S.
SeqsUpTo(S, n) == UNION {[1 .. k -> S] : k \in 0 .. n}

\* s.Events: newest first.
EventLists ==
    {es \in SeqsUpTo([CreatedAt : Times, Len : MsgLens], MaxEvents) :
        \A i \in 1 .. Len(es) - 1 : es[i].CreatedAt > es[i + 1].CreatedAt}

\* What DescribeServicesWithContext can return.
DescribeServicesOutputs ==
    {[err |-> TRUE, Services |-> <<>>], [err |-> FALSE, Services |-> <<>>]}
    \cup {[err |-> FALSE, Services |-> <<[Deployments |-> n, Events |-> es]>>] :
            n \in 0 .. MaxDeps, es \in EventLists}

\* What GetLogEventsWithContext can return.
GetLogEventsOutputs ==
    {[err |-> TRUE, Events |-> <<>>]}
    \cup {[err |-> FALSE, Events |-> es] : es \in SeqsUpTo([Len : MsgLens], MaxLogs)}

\* formatEvent / formatLogEvent: the lines a record of length n wraps to.
WrappedLines(n) == n \div TerminalWidth + 1

\* (*event.CreatedAt).After(startedAt), with After as "not before".
EventShown_NotBefore(event, t) == event.CreatedAt >= t

\* (*event.CreatedAt).After(startedAt)
EventShown(event, t) == event.CreatedAt > t

\* for _, event := range s.Events { if After { for _, line := range formatEvent { Println; lines++ } } }
RECURSIVE PrintEvents(_, _, _)
PrintEvents(events, i, t) ==
    IF i > Len(events) THEN [out |-> <<>>, lines |-> 0]
    ELSE LET rest == PrintEvents(events, i + 1, t)
             n == WrappedLines(events[i].Len)
         IN IF EventShown(events[i], t)
            THEN [out |-> Repeat(Tok("event", events[i].CreatedAt), n) \o rest.out,
                  lines |-> n + rest.lines]
            ELSE rest

\* DescribeServiceDeployments that does not count the deployment lines.
DescribeServiceDeployments_NoDepCount(out, t) ==
    IF out.err \/ Len(out.Services) = 0
    THEN [lines |-> 0, err |-> out.err, out |-> <<>>]
    ELSE LET s == out.Services[1]
             ev == PrintEvents(s.Events, 1, t)
         IN [lines |-> ev.lines, err |-> FALSE,
             out |-> Repeat(Tok("deployment", 0), s.Deployments) \o ev.out]

\* DescribeServiceDeployments, given the response of DescribeServicesWithContext:
\* the (int, error) returned and what was written to standard output.
DescribeServiceDeployments(out, t) ==
    IF out.err \/ Len(out.Services) = 0
    THEN [lines |-> 0, err |-> out.err, out |-> <<>>]
    ELSE LET s == out.Services[1]
             ev == PrintEvents(s.Events, 1, t)
         IN [lines |-> s.Deployments + ev.lines, err |-> FALSE,
             out |-> Repeat(Tok("deployment", 0), s.Deployments) \o ev.out]

\* for _, event := range out.Events { for _, line := range formatLogEvent { Println; lines++ } }
RECURSIVE PrintLogEvents(_, _)
PrintLogEvents(events, i) ==
    IF i > Len(events) THEN <<>>
    ELSE Repeat(Tok("logline", 0), WrappedLines(events[i].Len))
         \o PrintLogEvents(events, i + 1)

\* GetLogEvents, given the response of GetLogEventsWithContext.
GetLogEvents(out) ==
    IF out.err \/ Len(out.Events) = 0
    THEN [lines |-> 0, err |-> out.err, out |-> <<>>]
    ELSE LET printedLines == PrintLogEvents(out.Events, 1)
         IN [lines |-> Len(printedLines), err |-> FALSE, out |-> printedLines]

\* A nil *ecs.LogConfiguration.
NilLogConfiguration == [present |-> FALSE, LogDriver |-> "nil", StreamPrefix |-> FALSE]

\* The log configurations: nil, or a driver with or without the option
\* awslogs-stream-prefix.
LogConfs ==
    {NilLogConfiguration}
    \cup [present : {TRUE}, LogDriver : {"awslogs", "json-file"}, StreamPrefix : BOOLEAN]

\* The test that looks at the driver only.
AwslogsNotConfigured_DriverOnly(c) ==
    ~c.present \/ c.LogDriver # "awslogs"

\* lc == nil || *lc.LogDriver != "awslogs" || lc.Options["awslogs-stream-prefix"] == nil
AwslogsNotConfigured(c) ==
    ~c.present \/ c.LogDriver # "awslogs" \/ ~c.StreamPrefix

\* <-waitCtx.Done() can proceed: waitCtx derives from the command's context.
WaitCtxDone == cancelled \/ ctxDone

NoResp == [err |-> FALSE, Services |-> <<>>, Events |-> <<>>]

InitWaitCommon ==
    /\ isTerminal \in BOOLEAN
    /\ attempts = 0
    /\ mpc = "start"
    /\ waitRes = "none"
    /\ ret = "none"
    /\ ctxDone = FALSE
    /\ cancelled = FALSE
    /\ rpc = "none"
    /\ tickReady = FALSE
    /\ fires = 0
    /\ lines = 0
    /\ inflightLive = FALSE
    /\ tickErr = FALSE
    /\ resp = NoResp
    /\ printed = 0
    /\ written = <<>>
    /\ elapsed = FALSE
    /\ waiterOpts = "none"
    /\ polls = 0

InitWait ==
    /\ InitWaitCommon
    /\ timeout = delay + 5
    /\ \/ kind = "service" /\ lc = NilLogConfiguration /\ startedAt \in 1 .. MaxTime - 1
       \/ kind = "task" /\ lc \in LogConfs /\ startedAt = 1

\* d.Log(...); waitCtx, cancel := context.WithCancel(ctx); defer cancel(); go func() {...}()
WaitServiceStable_Begin ==
    /\ cpc = "wait"
    /\ kind = "service"
    /\ mpc = "start"
    /\ written' = <<Tok("Waiting for service stable", 0)>>
    /\ rpc' = "select"
    /\ mpc' = "spawned"
    /\ UNCHANGED <<elapsed, kind, isTerminal, startedAt, lc, timeout, attempts, waitRes, ret,
                   ctxDone, cancelled, tickReady, fires, lines, inflightLive,
                   tickErr, resp, printed>>
    /\ UNCHANGED <<waiterOpts, polls>>
    /\ UNCHANGED <<rbVars, asVars, tdVars, cmdVars, svdVars>>

\* The waiter options and the call of WaitUntilServicesStableWithContext.
WaitServiceStable_Waiter ==
    /\ kind = "service"
    /\ mpc = "spawned"
    /\ attempts' = WaiterMaxAttempts(timeout)
    /\ waiterOpts' = "explicit"
    /\ mpc' = "blocked"
    /\ UNCHANGED <<elapsed, kind, isTerminal, startedAt, lc, timeout, waitRes, ret, ctxDone,
                   cancelled, rpc, tickReady, fires, lines, inflightLive, tickErr,
                   resp, printed>>
    /\ written' = <<>>
    /\ UNCHANGED polls
    /\ UNCHANGED <<rbVars, asVars, tdVars, cmdVars, svdVars>>

\* WaitRunTask up to its call of WaitUntilTasksStoppedWithContext.
WaitRunTask_Begin ==
    /\ cpc = "wait"
    /\ kind = "task"
    /\ mpc = "start"
    /\ IF AwslogsNotConfigured(lc)
       THEN /\ written' = <<Tok("Waiting for run task", 0),
                             Tok("awslogs not configured", 0)>>
            /\ UNCHANGED rpc
       ELSE /\ written' = <<Tok("Waiting for run task", 0),
                             Tok("logGroup", 0), Tok("logStream", 0)>>
            /\ rpc' = "select"
    /\ waiterOpts' = "defaults"
    /\ mpc' = "blocked"
    /\ UNCHANGED <<elapsed, kind, isTerminal, startedAt, lc, timeout, attempts, waitRes, ret,
                   ctxDone, cancelled, tickReady, fires, lines, inflightLive,
                   tickErr, resp, printed>>
    /\ UNCHANGED polls
    /\ UNCHANGED <<rbVars, asVars, tdVars, cmdVars, svdVars>>

\* A poll of the platform wait finds the service unstable and another attempt
\* is left: the wait sleeps for the delay.
Waiter_Poll ==
    /\ mpc = "blocked"
    /\ waiterOpts = "explicit"
    /\ ~ctxDone
    /\ polls + 1 < attempts
    /\ polls' = polls + 1
    /\ UNCHANGED <<elapsed, kind, isTerminal, startedAt, lc, timeout, attempts, mpc, waitRes,
                   ret, ctxDone, cancelled, rpc, tickReady, fires, lines, inflightLive,
                   tickErr, resp, printed, waiterOpts>>
    /\ written' = <<>>
    /\ UNCHANGED <<rbVars, asVars, tdVars, cmdVars, svdVars>>

\* The platform's WaitUntilServicesStable / WaitUntilTasksStopped call returns:
\* nil when a poll (one of the attempts) finds the resource ready, an error
\* otherwise; under a context that is done it returns an error.
Waiter_Return ==
    /\ mpc = "blocked"
    /\ \E r \in {"nil", "error"} :
        /\ ctxDone => r = "error"
        /\ (waiterOpts = "explicit" /\ polls >= attempts) => r = "error"
        /\ waitRes' = r
    /\ mpc' = "unblocked"
    /\ UNCHANGED <<elapsed, kind, isTerminal, startedAt, lc, timeout, attempts, ret, ctxDone,
                   cancelled, rpc, tickReady, fires, lines, inflightLive, tickErr,
                   resp, printed>>
    /\ written' = <<>>
    /\ UNCHANGED <<waiterOpts, polls>>
    /\ UNCHANGED <<rbVars, asVars, tdVars, cmdVars, svdVars>>

\* The return without the deferred cancel().
Wait_Return_NoCancel ==
    /\ mpc = "unblocked"
    /\ ret' = waitRes
    /\ mpc' = "returned"
    /\ UNCHANGED <<elapsed, kind, isTerminal, startedAt, lc, timeout, attempts, waitRes,
                   ctxDone, cancelled, rpc, tickReady, fires, lines, inflightLive,
                   tickErr, resp, printed>>
    /\ written' = <<>>
    /\ UNCHANGED <<waiterOpts, polls>>
    /\ UNCHANGED <<rbVars, asVars, tdVars, cmdVars, svdVars>>

\* return d.ecs.WaitUntil...WithContext(...), with the deferred cancel().
Wait_Return ==
    /\ mpc = "unblocked"
    /\ cancelled' = TRUE
    /\ ret' = waitRes
    /\ mpc' = "returned"
    /\ UNCHANGED <<elapsed, kind, isTerminal, startedAt, lc, timeout, attempts, waitRes,
                   ctxDone, rpc, tickReady, fires, lines, inflightLive, tickErr,
                   resp, printed>>
    /\ written' = <<>>
    /\ UNCHANGED <<waiterOpts, polls>>
    /\ UNCHANGED <<rbVars, asVars, tdVars, cmdVars, svdVars>>

\* The deadline of context.WithTimeout(context.Background(), d.config.Timeout).
Ctx_Deadline ==
    /\ timeout > 0
    /\ cpc # "done"
    /\ ~ctxDone
    /\ mpc \in {"start", "spawned", "blocked", "unblocked"}
    /\ ctxDone' = TRUE
    /\ UNCHANGED <<elapsed, kind, isTerminal, startedAt, lc, timeout, attempts, mpc, waitRes,
                   ret, cancelled, rpc, tickReady, fires, lines, inflightLive,
                   tickErr, resp, printed>>
    /\ written' = <<>>
    /\ UNCHANGED <<waiterOpts, polls>>
    /\ UNCHANGED <<rbVars, asVars, tdVars, cmdVars, svdVars>>

\* The ticker of time.Tick delivers a tick; a tick that finds the channel full
\* is dropped.
Tick_Fire ==
    /\ rpc \in {"select", "fetch"}
    /\ ~tickReady
    /\ WaitCtxDone \/ fires < MaxTicks
    /\ tickReady' = TRUE
    /\ fires' = IF WaitCtxDone THEN fires ELSE fires + 1
    /\ UNCHANGED <<elapsed, kind, isTerminal, startedAt, lc, timeout, attempts, mpc, waitRes,
                   ret, ctxDone, cancelled, rpc, lines, inflightLive, tickErr,
                   resp, printed>>
    /\ written' = <<>>
    /\ UNCHANGED <<waiterOpts, polls>>
    /\ UNCHANGED <<rbVars, asVars, tdVars, cmdVars, svdVars>>

\* The Done case on the command's context instead of waitCtx.
Render_Done_ParentCtx ==
    /\ rpc = "select"
    /\ ctxDone
    /\ rpc' = "exited"
    /\ UNCHANGED <<elapsed, kind, isTerminal, startedAt, lc, timeout, attempts, mpc,
                   waitRes, ret, ctxDone, cancelled, tickReady, fires, lines,
                   inflightLive, tickErr, resp, printed>>
    /\ written' = <<>>
    /\ UNCHANGED <<waiterOpts, polls>>
    /\ UNCHANGED <<rbVars, asVars, tdVars, cmdVars, svdVars>>

\* case <-waitCtx.Done(): return
Render_Done ==
    /\ rpc = "select"
    /\ WaitCtxDone
    /\ rpc' = "exited"
    /\ UNCHANGED <<elapsed, kind, isTerminal, startedAt, lc, timeout, attempts, mpc, waitRes,
                   ret, ctxDone, cancelled, tickReady, fires, lines, inflightLive,
                   tickErr, resp, printed>>
    /\ written' = <<>>
    /\ UNCHANGED <<waiterOpts, polls>>
    /\ UNCHANGED <<rbVars, asVars, tdVars, cmdVars, svdVars>>

\* case <-tick: the erase loop, then the fetch is issued.
Render_Tick ==
    /\ rpc = "select"
    /\ tickReady
    /\ tickReady' = FALSE
    /\ written' = Repeat(Tok("erase", 0), IF isTerminal THEN lines ELSE 0)
    /\ inflightLive' = ~WaitCtxDone
    /\ rpc' = "fetch"
    /\ resp' = NoResp
    /\ UNCHANGED <<elapsed, kind, isTerminal, startedAt, lc, timeout, attempts, mpc, waitRes,
                   ret, ctxDone, cancelled, fires, lines, tickErr, printed>>
    /\ UNCHANGED <<waiterOpts, polls>>
    /\ UNCHANGED <<rbVars, asVars, tdVars, cmdVars, svdVars>>

\* The fetch whose error ends the loop.
Render_Fetch_StopsOnError ==
    /\ rpc = "fetch"
    /\ \E out \in (IF kind = "service" THEN DescribeServicesOutputs
                                       ELSE GetLogEventsOutputs) :
        LET r == IF kind = "service" THEN DescribeServiceDeployments(out, startedAt)
                                     ELSE GetLogEvents(out)
        IN /\ ~out.err => inflightLive
           /\ resp' = out
           /\ lines' = r.lines
           /\ tickErr' = r.err
           /\ written' = r.out
           /\ printed' = Len(written')
           /\ rpc' = IF r.err THEN "exited" ELSE "select"
    /\ UNCHANGED <<elapsed, kind, isTerminal, startedAt, lc, timeout, attempts, mpc, waitRes,
                   ret, ctxDone, cancelled, tickReady, fires, inflightLive>>
    /\ UNCHANGED <<waiterOpts, polls>>
    /\ UNCHANGED <<rbVars, asVars, tdVars, cmdVars, svdVars>>

\* lines, _ = d.DescribeServiceDeployments(waitCtx, startedAt)
\* lines, _ = d.GetLogEvents(waitCtx, logGroup, logStream, startedAt)
\* A call issued under a context that was already done returns an error.
Render_Fetch ==
    /\ rpc = "fetch"
    /\ \E out \in (IF kind = "service" THEN DescribeServicesOutputs
                                       ELSE GetLogEventsOutputs) :
        LET r == IF kind = "service" THEN DescribeServiceDeployments(out, startedAt)
                                     ELSE GetLogEvents(out)
        IN /\ ~out.err => inflightLive
           /\ resp' = out
           /\ lines' = r.lines
           /\ tickErr' = r.err
           /\ written' = r.out
           /\ printed' = Len(written')
           /\ rpc' = "select"
    /\ UNCHANGED <<elapsed, kind, isTerminal, startedAt, lc, timeout, attempts, mpc, waitRes,
                   ret, ctxDone, cancelled, tickReady, fires, inflightLive>>
    /\ UNCHANGED <<waiterOpts, polls>>
    /\ UNCHANGED <<rbVars, asVars, tdVars, cmdVars, svdVars>>

\* A step the goroutine can take without waiting: a select with a case that
\* can proceed, or the return of a call (a call under a context that is done
\* returns at once).
Render_Step == Render_Done \/ Render_Tick \/ Render_Fetch

\* A whole tick interval (10 s for the service loop, 5 s for the log loop) goes
\* by after waitCtx is done. The goroutine's own steps are short against the
\* interval: it does not go by while the goroutine has a step it can take.
\* waitCtx exists once the wait function has created it.
Interval_Elapses ==
    /\ mpc # "start"
    /\ WaitCtxDone
    /\ ~elapsed
    /\ ~ENABLED Render_Step
    /\ elapsed' = TRUE
    /\ UNCHANGED <<kind, isTerminal, startedAt, lc, timeout, attempts, mpc, waitRes,
                   ret, ctxDone, cancelled, rpc, tickReady, fires, lines,
                   inflightLive, tickErr, resp, printed>>
    /\ written' = <<>>
    /\ UNCHANGED <<waiterOpts, polls>>
    /\ UNCHANGED <<rbVars, asVars, tdVars, cmdVars, svdVars>>

\* ==================================================== suspendAutoScaling ====
Targets == 1 .. MaxTargets

\* The listings DescribeScalableTargets can return: targets without repetition.
TargetLists ==
    {ts \in SeqsUpTo(Targets, MaxTargets) :
        \A i, j \in 1 .. Len(ts) : i # j => ts[i] # ts[j]}

AsErrNone == [err |-> "nil", target |-> 0]

\* The suspended state with scheduled scaling left running.
SuspendedState_ScheduledLeftOn(b) ==
    [DynamicScalingInSuspended |-> b,
     DynamicScalingOutSuspended |-> b,
     ScheduledScalingSuspended |-> FALSE]

\* &applicationautoscaling.SuspendedState{...: &suspend, ...: &suspend, ...: &suspend}
SuspendedState(b) ==
    [DynamicScalingInSuspended |-> b,
     DynamicScalingOutSuspended |-> b,
     ScheduledScalingSuspended |-> b]

InitSuspend ==
    /\ suspend \in BOOLEAN
    /\ scalableTargets = <<>>
    /\ asPc = "describe"
    /\ asIdx = 0
    /\ registered = <<>>
    /\ \E b \in BOOLEAN : remote = [t \in Targets |-> SuspendedState(b)]
    /\ asRet = AsErrNone

\* out, err := d.autoScaling.DescribeScalableTargets(...) and the two early returns.
SuspendAutoScaling_Describe ==
    /\ asPc = "describe"
    /\ \E failed \in BOOLEAN, ts \in TargetLists :
        IF failed
        THEN /\ ts = <<>>
             /\ asRet' = [err |-> "failed to describe scalable targets", target |-> 0]
             /\ asPc' = "done"
             /\ UNCHANGED <<scalableTargets, asIdx>>
        ELSE /\ scalableTargets' = ts
             /\ IF Len(ts) = 0
                THEN asPc' = "done" /\ UNCHANGED asIdx
                ELSE asPc' = "loop" /\ asIdx' = 1
             /\ UNCHANGED asRet
    /\ UNCHANGED <<suspend, registered, remote>>
    /\ UNCHANGED <<rbVars, wtVars, tdVars, cmdVars, svdVars>>

\* The loop body that goes on to the next target after a failed update.
SuspendAutoScaling_Register_GoesOn ==
    /\ asPc = "loop"
    /\ LET target == scalableTargets[asIdx]
           req == [ResourceId |-> target, SuspendedState |-> SuspendedState(suspend)]
       IN /\ registered' = Append(registered, req)
          /\ \E failed \in BOOLEAN :
               /\ IF failed
                  THEN /\ asRet' = [err |-> "failed to register scalable target",
                                    target |-> target]
                       /\ UNCHANGED remote
                  ELSE /\ remote' = [remote EXCEPT ![target] = req.SuspendedState]
                       /\ UNCHANGED asRet
               /\ IF asIdx = Len(scalableTargets)
                  THEN asPc' = "done" /\ UNCHANGED asIdx
                  ELSE asIdx' = asIdx + 1 /\ UNCHANGED asPc
    /\ UNCHANGED <<suspend, scalableTargets>>
    /\ UNCHANGED <<rbVars, wtVars, tdVars, cmdVars, svdVars>>

\* One iteration of for _, target := range out.ScalableTargets: the
\* RegisterScalableTarget call, the return on its error, and the return nil
\* after the last target.
SuspendAutoScaling_Register ==
    /\ asPc = "loop"
    /\ LET target == scalableTargets[asIdx]
           req == [ResourceId |-> target, SuspendedState |-> SuspendedState(suspend)]
       IN /\ registered' = Append(registered, req)
          /\ \E failed \in BOOLEAN :
               IF failed
               THEN /\ asRet' = [err |-> "failed to register scalable target",
                                 target |-> target]
                    /\ asPc' = "done"
                    /\ UNCHANGED <<remote, asIdx>>
               ELSE /\ remote' = [remote EXCEPT ![target] = req.SuspendedState]
                    /\ IF asIdx = Len(scalableTargets)
                       THEN asPc' = "done" /\ UNCHANGED asIdx
                       ELSE asIdx' = asIdx + 1 /\ UNCHANGED asPc
                    /\ UNCHANGED asRet
    /\ UNCHANGED <<suspend, scalableTargets>>
    /\ UNCHANGED <<rbVars, wtVars, tdVars, cmdVars, svdVars>>

\* ================================================ RegisterTaskDefinition ====
\* The fields of ecs.RegisterTaskDefinitionInput the request sets.
AllowListed ==
    {"ContainerDefinitions", "Cpu", "ExecutionRoleArn", "Family", "Memory",
     "NetworkMode", "PlacementConstraints", "RequiresCompatibilities",
     "TaskRoleArn", "ProxyConfiguration", "Volumes"}

\* The fields of ecs.TaskDefinition the platform assigns.
PlatformAssigned == {"Revision", "Status", "TaskDefinitionArn"}

\* A field is nil or carries one of the values of FieldValues.
FieldValues == {"nil", "given"}

\* What a platform-assigned field holds for revision r: the revision number,
\* the ARN of that revision (NoArn, 0, for nil) and the status.
Assigned(f, r) ==
    IF f = "Status" THEN (IF r = 0 THEN "nil" ELSE "ACTIVE") ELSE r

\* The definitions LoadTaskDefinition can return: any values of the
\* allow-listed fields, with or without the fields of a registered revision.
TaskDefinitions(revs) ==
    {[f \in AllowListed \cup PlatformAssigned |->
        IF f \in AllowListed THEN a[f] ELSE Assigned(f, r)] :
     a \in [AllowListed -> FieldValues], r \in revs}

NoTd ==
    [f \in AllowListed \cup PlatformAssigned |->
        IF f \in AllowListed THEN "nil" ELSE Assigned(f, 0)]

\* The request that also passes the revision on.
RegisterTaskDefinitionInput_WithRevision(t) ==
    [ContainerDefinitions |-> t.ContainerDefinitions,
     Cpu |-> t.Cpu,
     ExecutionRoleArn |-> t.ExecutionRoleArn,
     Family |-> t.Family,
     Memory |-> t.Memory,
     NetworkMode |-> t.NetworkMode,
     PlacementConstraints |-> t.PlacementConstraints,
     RequiresCompatibilities |-> t.RequiresCompatibilities,
     TaskRoleArn |-> t.TaskRoleArn,
     ProxyConfiguration |-> t.ProxyConfiguration,
     Volumes |-> t.Volumes,
     Revision |-> t.Revision]

\* &ecs.RegisterTaskDefinitionInput{ContainerDefinitions: td.ContainerDefinitions, ...}
RegisterTaskDefinitionInput(t) ==
    [ContainerDefinitions |-> t.ContainerDefinitions,
     Cpu |-> t.Cpu,
     ExecutionRoleArn |-> t.ExecutionRoleArn,
     Family |-> t.Family,
     Memory |-> t.Memory,
     NetworkMode |-> t.NetworkMode,
     PlacementConstraints |-> t.PlacementConstraints,
     RequiresCompatibilities |-> t.RequiresCompatibilities,
     TaskRoleArn |-> t.TaskRoleArn,
     ProxyConfiguration |-> t.ProxyConfiguration,
     Volumes |-> t.Volumes]

\* out.TaskDefinition: the platform stores the fields of the request and
\* assigns the next revision of the family, its status and its ARN.
RegisteredTaskDefinition(req, r) ==
    [f \in AllowListed \cup PlatformAssigned |->
        IF f \in AllowListed THEN req[f] ELSE Assigned(f, r)]

\* RegisterTaskDefinition: the request is built from td and sent; the
\* platform's definition is returned unless the call failed.
RegisterTaskDefinition_Call(failed) ==
    /\ regInputs' = Append(regInputs, RegisterTaskDefinitionInput(td))
    /\ IF failed
       THEN UNCHANGED <<newTd, latestRevision>>
       ELSE /\ latestRevision' = latestRevision + 1
            /\ newTd' = RegisteredTaskDefinition(RegisterTaskDefinitionInput(td),
                                                 latestRevision + 1)
    /\ UNCHANGED td

InitRegister ==
    /\ latestRevision \in 0 .. MaxRev - 1
    /\ td \in TaskDefinitions({0, latestRevision})
    /\ newTd = NoTd
    /\ regInputs = <<>>
    /\ tdPc = "loaded"

RegisterTaskDefinition ==
    /\ tdPc = "loaded"
    /\ \E failed \in BOOLEAN :
        /\ RegisterTaskDefinition_Call(failed)
        /\ tdPc' = IF failed THEN "failed" ELSE "registered"
    /\ UNCHANGED <<rbVars, wtVars, asVars, cmdVars, svdVars>>

\* The definition the registration returned is the one loaded next.
LoadRegistered ==
    /\ tdPc = "registered"
    /\ Len(regInputs) < MaxRegistrations
    /\ td' = newTd
    /\ tdPc' = "loaded"
    /\ UNCHANGED <<newTd, regInputs, latestRevision>>
    /\ UNCHANGED <<rbVars, wtVars, asVars, cmdVars, svdVars>>

IdleRegister ==
    /\ td = NoTd
    /\ newTd = NoTd
    /\ regInputs = <<>>
    /\ latestRevision = 0
    /\ tdPc = "idle"

\* ====================================================== the commands ====
NoOpt == [DryRun |-> FALSE, NoWait |-> FALSE, Force |-> FALSE,
          SkipTaskDefinition |-> FALSE, Output |-> FALSE]

NoTaskOut == [err |-> FALSE, Failures |-> FALSE, Containers |-> <<>>]

Commands == {"Create", "Delete", "Run", "Register", "Wait"}

\* The options each command reads.
OptionsOf(c) ==
    {o \in [DryRun : BOOLEAN, NoWait : BOOLEAN, Force : BOOLEAN,
            SkipTaskDefinition : BOOLEAN, Output : BOOLEAN] :
        /\ o.DryRun => c # "Wait"
        /\ o.NoWait => c \in {"Create", "Run"}
        /\ o.Force => c = "Delete"
        /\ o.SkipTaskDefinition => c = "Run"
        /\ o.Output => c = "Register"}

\* d.Service, and a name that is not the service's.
ServiceName == "service"
OtherName == "another"

Call(c, a, sv) == [call |-> c, arn |-> a, service |-> sv]

Mutating == {"RegisterTaskDefinition", "CreateService", "DeleteService", "RunTask"}

\* The definition LoadTaskDefinition reads from the configured path.
LoadedTaskDefinition ==
    [f \in AllowListed \cup PlatformAssigned |->
        IF f \in AllowListed THEN "given" ELSE Assigned(f, 0)]

\* The definition DescribeTaskDefinition returns for *sv.TaskDefinition.
DescribedTaskDefinition ==
    RegisteredTaskDefinition(RegisterTaskDefinitionInput(LoadedTaskDefinition),
                             latestRevision)

\* ------------------------------------------------- DescribeTaskStatus ----
ContainerNames == {"app", "sidecar"}
\* *int64 and *string: <<>> and "nil" for nil.
ExitCodes == {<<>>, <<0>>, <<1>>}
Reasons == {"nil", "OutOfMemory"}

ErrTasksOut == [err |-> TRUE, Failures |-> FALSE, Containers |-> <<>>]

\* What DescribeTasksWithContext can answer for the stopped task.
DescribeTasksOutputs ==
    {ErrTasksOut, [err |-> FALSE, Failures |-> TRUE, Containers |-> <<>>]}
    \cup {[err |-> FALSE, Failures |-> FALSE, Containers |-> cs] :
            cs \in {c \in SeqsUpTo([Name : ContainerNames, ExitCode : ExitCodes,
                                     Reason : Reasons], MaxContainers) :
                      /\ Len(c) >= 1
                      /\ \A i, j \in 1 .. Len(c) : i # j => c[i].Name # c[j].Name}}

\* The values of opt.WatchContainer: nil, or a name (one that no container has
\* included).
WatchContainers == {"nil", "absent"} \cup ContainerNames

\* for _, c := range out.Tasks[0].Containers { if *c.Name == *name { container = c; break } }
RECURSIVE FindContainer(_, _, _)
FindContainer(cs, i, name) ==
    IF i > Len(cs) THEN 0
    ELSE IF cs[i].Name = name THEN i
    ELSE FindContainer(cs, i + 1, name)

\* The status of the first container, whatever name is watched.
DescribeTaskStatus_FirstContainer(out, name) ==
    IF out.err THEN "describe tasks error"
    ELSE IF out.Failures THEN "task failure"
    ELSE LET container == out.Containers[1]
         IN IF container.ExitCode # <<>> /\ container.ExitCode[1] # 0
            THEN "Container: Exit Code"
            ELSE IF container.Reason # "nil" THEN "Container: Reason"
            ELSE "nil"

\* DescribeTaskStatus, given the answer of DescribeTasksWithContext: the error
\* returned ("nil" for none).
DescribeTaskStatus(out, name) ==
    IF out.err THEN "describe tasks error"
    ELSE IF out.Failures THEN "task failure"
    ELSE LET k == IF name # "nil" THEN FindContainer(out.Containers, 1, name) ELSE 0
             container == IF k = 0 THEN out.Containers[1] ELSE out.Containers[k]
         IN IF container.ExitCode # <<>> /\ container.ExitCode[1] # 0
            THEN "Container: Exit Code"
            ELSE IF container.Reason # "nil" THEN "Container: Reason"
            ELSE "nil"

\* ------------------------------------------------------- command steps ----
\* Wait: d.Log("Waiting for the service stable"), then the call of WaitServiceStable.
Wait_Start ==
    /\ cmd = "Wait"
    /\ cpc = "start"
    /\ cpc' = "wait"
    /\ written' = <<Tok("Waiting for the service stable", 0)>>
    /\ UNCHANGED <<cmd, opt, remoteCalls, cmdRet, typed, taskOut, watchContainer>>
    /\ UNCHANGED <<rbVars, wtState, asVars, tdVars, svdVars>>

\* Create up to the dry-run check: the two definitions are loaded.
Create_Load ==
    /\ cmd = "Create"
    /\ cpc = "start"
    /\ \E loadErr \in {"nil", "failed to load service definition",
                        "failed to load task definition"} :
        IF loadErr # "nil"
        THEN /\ cmdRet' = loadErr
             /\ cpc' = "done"
             /\ written' = <<Tok("Starting create service", 0)>>
             /\ UNCHANGED td
        ELSE /\ td' = LoadedTaskDefinition
             /\ IF opt.DryRun
                THEN /\ written' = <<Tok("Starting create service", 0),
                                     Tok("task definition:", 0),
                                     Tok("service definition:", 0),
                                     Tok("DRY RUN OK", 0)>>
                     /\ cmdRet' = "nil"
                     /\ cpc' = "done"
                ELSE /\ written' = <<Tok("Starting create service", 0)>>
                     /\ cpc' = "register"
                     /\ UNCHANGED cmdRet
    /\ UNCHANGED <<cmd, opt, remoteCalls, typed, taskOut, watchContainer>>
    /\ UNCHANGED <<newTd, regInputs, latestRevision, tdPc>>
    /\ UNCHANGED <<rbVars, wtState, asVars, svdVars>>

\* Register that goes on to the registration under dry-run too.
Register_Load_IgnoresDryRun ==
    /\ cmd = "Register"
    /\ cpc = "start"
    /\ \E loadErr \in {"nil", "failed to load task definition"} :
        IF loadErr # "nil"
        THEN /\ cmdRet' = loadErr
             /\ cpc' = "done"
             /\ UNCHANGED td
        ELSE /\ td' = LoadedTaskDefinition
             /\ cpc' = "register"
             /\ UNCHANGED cmdRet
    /\ written' = <<Tok("Starting register task definition", 0)>>
    /\ UNCHANGED <<cmd, opt, remoteCalls, typed, taskOut, watchContainer>>
    /\ UNCHANGED <<newTd, regInputs, latestRevision, tdPc>>
    /\ UNCHANGED <<rbVars, wtState, asVars, svdVars>>

\* Register up to the dry-run check.
Register_Load ==
    /\ cmd = "Register"
    /\ cpc = "start"
    /\ \E loadErr \in {"nil", "failed to load task definition"} :
        IF loadErr # "nil"
        THEN /\ cmdRet' = loadErr
             /\ cpc' = "done"
             /\ written' = <<Tok("Starting register task definition", 0)>>
             /\ UNCHANGED td
        ELSE /\ td' = LoadedTaskDefinition
             /\ IF opt.DryRun
                THEN /\ written' = <<Tok("Starting register task definition", 0),
                                     Tok("task definition:", 0),
                                     Tok("DRY RUN OK", 0)>>
                     /\ cmdRet' = "nil"
                     /\ cpc' = "done"
                ELSE /\ written' = <<Tok("Starting register task definition", 0)>>
                     /\ cpc' = "register"
                     /\ UNCHANGED cmdRet
    /\ UNCHANGED <<cmd, opt, remoteCalls, typed, taskOut, watchContainer>>
    /\ UNCHANGED <<newTd, regInputs, latestRevision, tdPc>>
    /\ UNCHANGED <<rbVars, wtState, asVars, svdVars>>

\* Run up to the dry-run check: the overrides are parsed, the service is
\* described, and the definition is described (skip-task-definition) or loaded.
Run_Prepare ==
    /\ cmd = "Run"
    /\ cpc = "start"
    /\ \E r \in {"nil", "invalid overrides", "failed to describe service status",
                  "failed to describe task definition",
                  "failed to load task definition"} :
        /\ r = "failed to describe task definition" => opt.SkipTaskDefinition
        /\ r = "failed to load task definition" => ~opt.SkipTaskDefinition
        /\ (ctxDone /\ r # "invalid overrides") => r = "failed to describe service status"
        /\ IF r # "nil"
           THEN /\ cmdRet' = r
                /\ cpc' = "done"
                /\ written' = <<Tok("Running task", 0)>>
                /\ UNCHANGED td
           ELSE /\ td' = IF opt.SkipTaskDefinition THEN DescribedTaskDefinition
                                                   ELSE LoadedTaskDefinition
                /\ IF opt.DryRun
                   THEN /\ written' = <<Tok("Running task", 0),
                                        Tok("task definition:", 0),
                                        Tok("DRY RUN OK", 0)>>
                        /\ cmdRet' = "nil"
                        /\ cpc' = "done"
                   ELSE /\ written' = <<Tok("Running task", 0)>>
                        /\ cpc' = IF opt.SkipTaskDefinition THEN "runTask" ELSE "register"
                        /\ UNCHANGED cmdRet
    /\ UNCHANGED <<cmd, opt, remoteCalls, typed, taskOut, watchContainer>>
    /\ UNCHANGED <<newTd, regInputs, latestRevision, tdPc>>
    /\ UNCHANGED <<rbVars, wtState, asVars, svdVars>>

\* newTd, err := d.RegisterTaskDefinition(ctx, td) of Create, Run and Register,
\* and what follows it up to the next remote call.
Cmd_RegisterTaskDefinition ==
    /\ cpc = "register"
    /\ \E failed \in BOOLEAN :
        /\ ctxDone => failed
        /\ RegisterTaskDefinition_Call(failed)
        /\ remoteCalls' = Append(remoteCalls, Call("RegisterTaskDefinition", NoArn, "nil"))
        /\ IF failed
           THEN /\ cmdRet' = "failed to register task definition"
                /\ cpc' = "done"
                /\ written' = <<Tok("Registering a new task definition...", 0)>>
           ELSE /\ written' = <<Tok("Registering a new task definition...", 0),
                                Tok("Task definition is registered", 0)>>
                                \o (IF cmd = "Register" /\ opt.Output
                                    THEN <<Tok("newTd", 0)>> ELSE <<>>)
                /\ cpc' = IF cmd = "Create" THEN "createService"
                          ELSE IF cmd = "Run" THEN "runTask" ELSE "done"
                /\ cmdRet' = IF cmd = "Register" THEN "nil" ELSE cmdRet
    /\ UNCHANGED <<cmd, opt, typed, taskOut, watchContainer, tdPc>>
    /\ UNCHANGED <<rbVars, wtState, asVars, svdVars>>

\* CreateService with the ARN of the loaded definition, not the registered one.
Create_CreateService_LoadedArn ==
    /\ cmd = "Create"
    /\ cpc = "createService"
    /\ remoteCalls' = Append(remoteCalls,
                             Call("CreateService", td.TaskDefinitionArn, ServiceName))
    /\ \E failed \in BOOLEAN :
        /\ ctxDone => failed
        /\ IF failed
           THEN /\ cmdRet' = "failed to create service"
                /\ cpc' = "done"
                /\ written' = <<>>
           ELSE /\ written' = <<Tok("Service is created", 0)>>
                /\ IF opt.NoWait
                   THEN cmdRet' = "nil" /\ cpc' = "done"
                   ELSE cpc' = "wait" /\ UNCHANGED cmdRet
    /\ UNCHANGED <<cmd, opt, typed, taskOut, watchContainer>>
    /\ UNCHANGED <<rbVars, wtState, asVars, tdVars, svdVars>>

\* Create from svd.TaskDefinition = newTd.TaskDefinitionArn to the call of
\* WaitServiceStable.
Create_CreateService ==
    /\ cmd = "Create"
    /\ cpc = "createService"
    /\ remoteCalls' = Append(remoteCalls,
                             Call("CreateService", newTd.TaskDefinitionArn, ServiceName))
    /\ \E failed \in BOOLEAN :
        /\ ctxDone => failed
        /\ IF failed
           THEN /\ cmdRet' = "failed to create service"
                /\ cpc' = "done"
                /\ written' = <<>>
           ELSE /\ written' = <<Tok("Service is created", 0)>>
                /\ IF opt.NoWait
                   THEN cmdRet' = "nil" /\ cpc' = "done"
                   ELSE cpc' = "wait" /\ UNCHANGED cmdRet
    /\ UNCHANGED <<cmd, opt, typed, taskOut, watchContainer>>
    /\ UNCHANGED <<rbVars, wtState, asVars, tdVars, svdVars>>

\* The end of Wait and Create that prints the success line whatever
\* WaitServiceStable returned.
Cmd_AfterWaitServiceStable_AlwaysCompleted ==
    /\ cmd \in {"Wait", "Create"}
    /\ cpc = "wait"
    /\ mpc = "returned"
    /\ written' = <<Tok("Service is stable now. Completed!", 0)>>
    /\ cmdRet' = "nil"
    /\ cpc' = "done"
    /\ UNCHANGED <<cmd, opt, remoteCalls, typed, taskOut, watchContainer>>
    /\ UNCHANGED <<rbVars, wtState, asVars, tdVars, svdVars>>

\* Wait and Create after WaitServiceStable has returned.
Cmd_AfterWaitServiceStable ==
    /\ cmd \in {"Wait", "Create"}
    /\ cpc = "wait"
    /\ mpc = "returned"
    /\ IF ret # "nil"
       THEN /\ cmdRet' = IF cmd = "Wait" THEN "the service still unstable"
                                         ELSE "failed to wait service stable"
            /\ written' = <<>>
       ELSE /\ written' = <<Tok("Service is stable now. Completed!", 0)>>
            /\ cmdRet' = "nil"
    /\ cpc' = "done"
    /\ UNCHANGED <<cmd, opt, remoteCalls, typed, taskOut, watchContainer>>
    /\ UNCHANGED <<rbVars, wtState, asVars, tdVars, svdVars>>

\* Delete up to the dry-run check: DescribeServiceStatus(ctx, 3).
Delete_Describe ==
    /\ cmd = "Delete"
    /\ cpc = "start"
    /\ \E r \in {"nil", "failed to describe service", "service is not found",
                  "failed to describe autoscaling"} :
        /\ ctxDone => r = "failed to describe service"
        /\ IF r # "nil"
           THEN /\ cmdRet' = r
                /\ cpc' = "done"
                /\ written' = <<Tok("Deleting service", 0)>>
           ELSE IF opt.DryRun
                THEN /\ written' = <<Tok("Deleting service", 0), Tok("Service:", 0),
                                     Tok("DRY RUN OK", 0)>>
                     /\ cmdRet' = "nil"
                     /\ cpc' = "done"
                ELSE /\ written' = <<Tok("Deleting service", 0), Tok("Service:", 0)>>
                     /\ cpc' = "confirm"
                     /\ UNCHANGED cmdRet
    /\ UNCHANGED <<cmd, opt, remoteCalls, typed, taskOut, watchContainer>>
    /\ UNCHANGED <<rbVars, wtState, asVars, tdVars, svdVars>>

\* The rest of Delete without the comparison of the typed name.
Delete_Delete_Unchecked ==
    /\ cmd = "Delete"
    /\ cpc = "confirm"
    /\ \E t \in {ServiceName, OtherName}, failed \in BOOLEAN :
        /\ typed' = IF opt.Force THEN typed ELSE t
        /\ ctxDone => failed
        /\ remoteCalls' = Append(remoteCalls, Call("DeleteService", NoArn, ServiceName))
        /\ IF failed
           THEN cmdRet' = "failed to delete service" /\ written' = <<>>
           ELSE cmdRet' = "nil" /\ written' = <<Tok("Service is deleted", 0)>>
    /\ cpc' = "done"
    /\ UNCHANGED <<cmd, opt, taskOut, watchContainer>>
    /\ UNCHANGED <<rbVars, wtState, asVars, tdVars, svdVars>>

\* The rest of Delete: the prompt (without force) and the DeleteService call.
Delete_Delete ==
    /\ cmd = "Delete"
    /\ cpc = "confirm"
    /\ \E t \in {ServiceName, OtherName}, failed \in BOOLEAN :
        /\ typed' = IF opt.Force THEN typed ELSE t
        /\ IF ~opt.Force /\ t # ServiceName
           THEN /\ cmdRet' = "confirmation failed"
                /\ written' = <<Tok("Aborted", 0)>>
                /\ UNCHANGED remoteCalls
           ELSE /\ ctxDone => failed
                /\ remoteCalls' = Append(remoteCalls,
                                         Call("DeleteService", NoArn, ServiceName))
                /\ IF failed
                   THEN cmdRet' = "failed to delete service" /\ written' = <<>>
                   ELSE cmdRet' = "nil" /\ written' = <<Tok("Service is deleted", 0)>>
    /\ cpc' = "done"
    /\ UNCHANGED <<cmd, opt, taskOut, watchContainer>>
    /\ UNCHANGED <<rbVars, wtState, asVars, tdVars, svdVars>>

\* Run from d.RunTask to the call of WaitRunTask.
Run_RunTask ==
    /\ cmd = "Run"
    /\ cpc = "runTask"
    /\ remoteCalls' = Append(remoteCalls,
                             Call("RunTask",
                                  IF opt.SkipTaskDefinition THEN td.TaskDefinitionArn
                                                            ELSE newTd.TaskDefinitionArn,
                                  "nil"))
    /\ \E r \in {"error", "failure", "task"} :
        /\ ctxDone => r = "error"
        /\ IF r # "task"
           THEN /\ cmdRet' = "failed to run task"
                /\ cpc' = "done"
                /\ written' = <<Tok("Running task", 0)>>
           ELSE IF opt.NoWait
                THEN /\ written' = <<Tok("Running task", 0), Tok("Task ARN:", 0),
                                     Tok("Run task invoked", 0)>>
                     /\ cmdRet' = "nil"
                     /\ cpc' = "done"
                ELSE /\ written' = <<Tok("Running task", 0), Tok("Task ARN:", 0)>>
                     /\ cpc' = "wait"
                     /\ UNCHANGED cmdRet
    /\ UNCHANGED <<cmd, opt, typed, taskOut, watchContainer>>
    /\ UNCHANGED <<rbVars, wtState, asVars, tdVars, svdVars>>

\* Run after WaitRunTask has returned: DescribeTaskStatus and the last line.
Run_AfterWaitRunTask ==
    /\ cmd = "Run"
    /\ cpc = "wait"
    /\ mpc = "returned"
    /\ IF ret # "nil"
       THEN cmdRet' = "failed to run task" /\ written' = <<>>
       ELSE LET st == DescribeTaskStatus(IF ctxDone THEN ErrTasksOut ELSE taskOut,
                                         watchContainer)
            IN IF st # "nil"
               THEN cmdRet' = st /\ written' = <<>>
               ELSE cmdRet' = "nil" /\ written' = <<Tok("Run task completed!", 0)>>
    /\ cpc' = "done"
    /\ UNCHANGED <<cmd, opt, remoteCalls, typed, taskOut, watchContainer>>
    /\ UNCHANGED <<rbVars, wtState, asVars, tdVars, svdVars>>

\* The command has called the wait function of its kind.
CmdAtWait ==
    /\ cmd = IF kind = "service" THEN "Wait" ELSE "Run"
    /\ opt = NoOpt
    /\ cpc = "wait"
    /\ remoteCalls = <<>>
    /\ cmdRet = "none"
    /\ typed = "none"
    /\ taskOut = NoTaskOut
    /\ watchContainer = "nil"

IdleCmd ==
    /\ cmd = "Wait"
    /\ opt = NoOpt
    /\ cpc = "done"
    /\ remoteCalls = <<>>
    /\ cmdRet = "none"
    /\ typed = "none"
    /\ taskOut = NoTaskOut
    /\ watchContainer = "nil"

IdleSuspend ==
    /\ suspend = FALSE
    /\ scalableTargets = <<>>
    /\ asPc = "done"
    /\ asIdx = 0
    /\ registered = <<>>
    /\ remote = [t \in Targets |-> SuspendedState(FALSE)]
    /\ asRet = AsErrNone

IdleRollback ==
    /\ history = <<>>
    /\ taskDefinitionArn = NoArn
    /\ serverPage = 1
    /\ found = FALSE
    /\ nextToken = NilToken
    /\ frtPc = "done"
    /\ frtRet = [arn |-> NoArn, err |-> ErrNone]
    /\ calls = 0

IdleWait ==
    /\ InitWaitCommon
    /\ kind = "service"
    /\ lc = NilLogConfiguration
    /\ startedAt = 0
    /\ timeout = 0

\* ================================================= LoadServiceDefinition ====
\* A nil *int64 is <<>>, a given one <<n>>; a nil *string is "nil".
NilCount == <<>>

\* The scheduling strategies a definition can name, and none.
SchedulingStrategies == {"nil", "REPLICA", "DAEMON", "EXTERNAL"}

DesiredCounts == {NilCount} \cup {<<n>> : n \in 0 .. MaxDesiredCount}

\* The ecs.CreateServiceInput values the loader can decode.
CreateServiceInputs ==
    [SchedulingStrategy : SchedulingStrategies,
     DesiredCount : DesiredCounts,
     ServiceName : {"nil", OtherName}]

NilSvd == [SchedulingStrategy |-> "nil", DesiredCount |-> NilCount, ServiceName |-> "nil"]

\* var count *int64; if c.SchedulingStrategy == nil ||
\*     *c.SchedulingStrategy == "REPLICA" && c.DesiredCount == nil {...}
\* else if *c.SchedulingStrategy == "DAEMON" {...} else {...}
\* && binds tighter than ||.
DefaultedDesiredCount(c) ==
    IF c.SchedulingStrategy = "nil"
       \/ (c.SchedulingStrategy = "REPLICA" /\ c.DesiredCount = NilCount)
    THEN <<1>>
    ELSE IF c.SchedulingStrategy = "DAEMON"
    THEN NilCount
    ELSE c.DesiredCount

\* c.Cluster, c.ServiceName and c.DesiredCount are set; the rest of c stays.
LoadedServiceDefinition(c) ==
    [c EXCEPT !.ServiceName = ServiceName,
              !.DesiredCount = DefaultedDesiredCount(c)]

InitLoad ==
    /\ svdPath \in {"", "ecs-service-def.json"}
    /\ svdFile \in CreateServiceInputs
    /\ loaderErr \in BOOLEAN
    /\ svd = NilSvd
    /\ svdErr = "none"
    /\ svdPc = "start"

\* func (d *App) LoadServiceDefinition(path string) (*ecs.CreateServiceInput, error)
LoadServiceDefinition ==
    /\ svdPc = "start"
    /\ IF svdPath = ""
       THEN svd' = NilSvd /\ svdErr' = "service_definition is not defined"
       ELSE IF loaderErr
       THEN svd' = NilSvd /\ svdErr' = "loader error"
       ELSE svd' = LoadedServiceDefinition(svdFile) /\ svdErr' = "nil"
    /\ svdPc' = "done"
    /\ UNCHANGED <<svdPath, svdFile, loaderErr>>
    /\ UNCHANGED <<rbVars, wtVars, asVars, tdVars, cmdVars>>

IdleLoad ==
    /\ svdPath = ""
    /\ svdFile = NilSvd
    /\ loaderErr = FALSE
    /\ svd = NilSvd
    /\ svdErr = "none"
    /\ svdPc = "idle"

\* ------------------------------------------------------- specifications ----
NextRollback == FindRollbackTarget_Loop

InitSpecRollback ==
    InitRollback /\ IdleWait /\ IdleSuspend /\ IdleRegister /\ IdleCmd /\ IdleLoad

SpecRollback == InitSpecRollback /\ [][NextRollback]_vars

InitAttempts ==
    /\ IdleRollback
    /\ IdleLoad
    /\ IdleSuspend
    /\ IdleRegister
    /\ InitWaitCommon
    /\ kind = "service"
    /\ CmdAtWait
    /\ lc = NilLogConfiguration
    /\ startedAt = 0
    /\ timeout \in -MaxTimeout .. MaxTimeout

NextAttempts ==
    \/ WaitServiceStable_Begin
    \/ WaitServiceStable_Waiter
    \/ Waiter_Return
    \/ Wait_Return

\* The primary flow of WaitServiceStable over every configured timeout.
SpecAttempts == InitAttempts /\ [][NextAttempts]_vars

NextWait ==
    \/ WaitServiceStable_Begin
    \/ WaitServiceStable_Waiter
    \/ WaitRunTask_Begin
    \/ Waiter_Return
    \/ Wait_Return
    \/ Ctx_Deadline
    \/ Tick_Fire
    \/ Render_Done
    \/ Render_Tick
    \/ Render_Fetch
    \/ Interval_Elapses

InitSpec ==
    InitWait /\ IdleRollback /\ IdleSuspend /\ IdleRegister /\ CmdAtWait /\ IdleLoad

Spec == InitSpec /\ [][NextWait]_vars

NextSuspend ==
    \/ SuspendAutoScaling_Describe
    \/ SuspendAutoScaling_Register

InitSpecSuspend ==
    InitSuspend /\ IdleRollback /\ IdleWait /\ IdleRegister /\ IdleCmd /\ IdleLoad

\* suspendAutoScaling over every listing and every outcome of its calls.
SpecSuspend == InitSpecSuspend /\ [][NextSuspend]_vars

NextRegister ==
    \/ RegisterTaskDefinition
    \/ LoadRegistered

InitSpecRegister ==
    InitRegister /\ IdleRollback /\ IdleWait /\ IdleSuspend /\ IdleCmd /\ IdleLoad

\* RegisterTaskDefinition over every loaded definition, and again over the
\* definition a registration returned.
SpecRegister == InitSpecRegister /\ [][NextRegister]_vars

\* What DescribeTasks answers in the runs of every command: a container that
\* exited with 0 and one that exited with 1.
CmdTaskOuts ==
    {[err |-> FALSE, Failures |-> FALSE,
      Containers |-> <<[Name |-> "app", ExitCode |-> <<c>>, Reason |-> "nil"]>>] :
     c \in {0, 1}}

\* A command starts: d.Start() and the options given.
InitCommands ==
    /\ InitWaitCommon
    /\ timeout = delay + 5
    /\ startedAt = 1
    /\ cmd \in Commands
    /\ opt \in OptionsOf(cmd)
    /\ kind = IF cmd = "Run" THEN "task" ELSE "service"
    /\ lc \in IF cmd = "Run" THEN LogConfs ELSE {NilLogConfiguration}
    /\ taskOut \in IF cmd = "Run" THEN CmdTaskOuts ELSE {NoTaskOut}
    /\ watchContainer = "nil"
    /\ cpc = "start"
    /\ remoteCalls = <<>>
    /\ cmdRet = "none"
    /\ typed = "none"
    /\ td = NoTd
    /\ newTd = NoTd
    /\ regInputs = <<>>
    /\ latestRevision = 1
    /\ tdPc = "idle"
    /\ IdleRollback
    /\ IdleSuspend
    /\ IdleLoad

\* The steps of the command's own goroutine.
PrimaryFlow ==
    \/ Wait_Start
    \/ Create_Load
    \/ Register_Load
    \/ Run_Prepare
    \/ Cmd_RegisterTaskDefinition
    \/ Create_CreateService
    \/ Delete_Describe
    \/ Delete_Delete
    \/ Run_RunTask
    \/ WaitServiceStable_Begin
    \/ WaitServiceStable_Waiter
    \/ WaitRunTask_Begin
    \/ Waiter_Poll
    \/ Waiter_Return
    \/ Wait_Return
    \/ Cmd_AfterWaitServiceStable
    \/ Run_AfterWaitRunTask

NextCommands ==
    \/ PrimaryFlow
    \/ Ctx_Deadline
    \/ Tick_Fire
    \/ Render_Done
    \/ Render_Tick
    \/ Render_Fetch
    \/ Interval_Elapses

\* The five commands, each with its waits and their render goroutine.
SpecCommands == InitCommands /\ [][NextCommands]_vars

\* Wait and Create start, with standard output on a terminal.
InitStable ==
    /\ InitCommands
    /\ cmd \in {"Wait", "Create"}
    /\ isTerminal

\* The steps of the goroutine of Wait and of Create.
PrimaryFlowStable ==
    \/ Wait_Start
    \/ Create_Load
    \/ Cmd_RegisterTaskDefinition
    \/ Create_CreateService
    \/ WaitServiceStable_Begin
    \/ WaitServiceStable_Waiter
    \/ Waiter_Poll
    \/ Waiter_Return
    \/ Wait_Return
    \/ Cmd_AfterWaitServiceStable

NextStable ==
    \/ PrimaryFlowStable
    \/ Ctx_Deadline
    \/ Tick_Fire
    \/ Render_Done
    \/ Render_Tick
    \/ Render_Fetch
    \/ Interval_Elapses

\* Wait and Create with their stability wait; the command's goroutine is
\* scheduled and every call it makes returns.
FairSpecStable ==
    /\ InitStable
    /\ [][NextStable]_vars
    /\ WF_vars(PrimaryFlowStable)

\* Run of a task without log tailing, over every answer of DescribeTasks and
\* every watched container.
InitRunStatus ==
    /\ InitWaitCommon
    /\ timeout = delay + 5
    /\ startedAt = 1
    /\ cmd = "Run"
    /\ opt \in {o \in OptionsOf("Run") : ~o.DryRun /\ ~o.NoWait}
    /\ kind = "task"
    /\ lc = NilLogConfiguration
    /\ taskOut \in DescribeTasksOutputs
    /\ watchContainer \in WatchContainers
    /\ cpc = "start"
    /\ remoteCalls = <<>>
    /\ cmdRet = "none"
    /\ typed = "none"
    /\ td = NoTd
    /\ newTd = NoTd
    /\ regInputs = <<>>
    /\ latestRevision = 1
    /\ tdPc = "idle"
    /\ IdleRollback
    /\ IdleSuspend
    /\ IdleLoad

NextRunStatus ==
    \/ Run_Prepare
    \/ Cmd_RegisterTaskDefinition
    \/ Run_RunTask
    \/ WaitRunTask_Begin
    \/ Waiter_Return
    \/ Wait_Return
    \/ Ctx_Deadline
    \/ Run_AfterWaitRunTask

SpecRunStatus == InitRunStatus /\ [][NextRunStatus]_vars

NextLoad == LoadServiceDefinition

InitSpecLoad ==
    InitLoad /\ IdleRollback /\ IdleWait /\ IdleSuspend /\ IdleRegister /\ IdleCmd

\* LoadServiceDefinition over every path, loader outcome and decoded definition.
SpecLoad == InitSpecLoad /\ [][NextLoad]_vars

\* The goroutine is scheduled and its calls return (weak fairness); a select
\* whose Done case can proceed again and again takes it (Go chooses among the
\* ready cases uniformly at random).
FairSpec ==
    /\ Spec
    /\ WF_vars(Render_Fetch)
    /\ SF_vars(Render_Done)

\* ================================================================ claims ====
\* Position of the argument in the listing, 0 when it is not listed.
IndexOf ==
    IF \E i \in 1 .. Len(history) : history[i] = taskDefinitionArn
    THEN CHOOSE i \in 1 .. Len(history) : history[i] = taskDefinitionArn
    ELSE 0

\* The page that holds position i, and the number of pages of the listing.
PageOf(i) == (i + PageLen - 1) \div PageLen
NumPages == PageOf(Len(history))

\* C1 (as claimed): given the oldest revision of a family that has a newer one,
\* FindRollbackTarget fails with "rollback target is not found" (unless the
\* listing call itself failed), and issues no more listing calls than one scan
\* of the pages and one further call need.
C1_OldestIsNotFound ==
    (Len(history) >= 2 /\ IndexOf = Len(history)) =>
        /\ calls <= NumPages + 1
        /\ (frtPc = "done" /\ frtRet.err # ErrList) => frtRet.err = ErrNotFound

\* C2 (as claimed): given an ARN that no page of a non-empty listing holds,
\* FindRollbackTarget has stopped once the pages were scanned once (at most one
\* further call), and what it returns then is "rollback target is not found".
C2_AbsentIsNotFoundAfterOneScan ==
    (Len(history) >= 1 /\ IndexOf = 0) =>
        /\ calls <= NumPages + 1
        /\ (frtPc = "done" /\ frtRet.err # ErrList) => frtRet.err = ErrNotFound

\* C3: given an ARN that is listed and is not the last one, FindRollbackTarget
\* lists no page beyond the one that holds the next ARN, has returned when
\* that page was scanned, and returns exactly that next ARN (unless a listing
\* call failed).
C3_ReturnsImmediateSuccessor ==
    (IndexOf >= 1 /\ IndexOf < Len(history)) =>
        /\ calls <= PageOf(IndexOf + 1)
        /\ calls = PageOf(IndexOf + 1) => frtPc = "done"
        /\ (frtPc = "done" /\ frtRet.err # ErrList) =>
               frtRet = [arn |-> history[IndexOf + 1], err |-> ErrNone]

\* C3 witness: the argument ends a page and the first ARN of the following
\* page was returned.
C3_Witness_SuccessorOnNextPage ==
    /\ IndexOf >= 1 /\ IndexOf < Len(history)
    /\ PageOf(IndexOf) < PageOf(IndexOf + 1)
    /\ frtPc = "done"
    /\ frtRet = [arn |-> history[IndexOf + 1], err |-> ErrNone]

\* ceil(t / delay) for an integer t.
CeilDiv(t) == IF GoMod(t, delay) > 0 THEN GoDiv(t, delay) + 1 ELSE GoDiv(t, delay)

\* The waiter has been given its options.
WaiterCalled == mpc \in {"blocked", "unblocked", "returned"} /\ kind = "service"

\* C4 (as claimed, for the timeouts >= 0): max-attempts is ceil(timeout/delay)
\* when timeout is not a multiple of delay, and timeout/delay + 1 when it is.
C4_AttemptsIsCeil ==
    (WaiterCalled /\ timeout >= 0) =>
        attempts = IF GoMod(timeout, delay) # 0 THEN CeilDiv(timeout)
                   ELSE GoDiv(timeout, delay) + 1

\* C4 (amended): max-attempts is ceil(timeout/delay) + 1 when timeout is not a
\* multiple of delay, and timeout/delay + 1 when it is.
C4_AttemptsIsCeilPlusOne ==
    WaiterCalled =>
        attempts = IF GoMod(timeout, delay) # 0 THEN CeilDiv(timeout) + 1
                   ELSE GoDiv(timeout, delay) + 1

\* C4 witness: the waiter was called with a positive timeout that is not a
\* multiple of delay.
C4_Witness_NotAMultiple ==
    WaiterCalled /\ timeout > delay /\ timeout % delay # 0

\* C5: for a timeout >= 0, max-attempts is floor(timeout/delay) + 1, plus one
\* when timeout mod delay > 0; so it is at least 1 and attempts * delay covers
\* the timeout.
C5_AttemptsFormula ==
    (WaiterCalled /\ timeout >= 0) =>
        /\ attempts = (timeout \div delay) + 1
                      + (IF timeout % delay > 0 THEN 1 ELSE 0)
        /\ attempts >= 1
        /\ attempts * delay >= timeout

\* C5 witness: the waiter was called with a timeout that leaves a remainder,
\* and the attempts exceed floor(timeout/delay) + 1.
C5_Witness_Remainder ==
    /\ WaiterCalled /\ timeout >= 0 /\ timeout % delay > 0
    /\ attempts = (timeout \div delay) + 2

\* What a step appended to standard output.
Appended == written'

\* C6: whenever the wait function has returned (with success or with an
\* error) and had started a render goroutine, that goroutine's loop eventually
\* exits.
C6_RendererExits ==
    (mpc = "returned" /\ rpc # "none") ~> (rpc = "exited")

\* C6 witness: the wait returned an error before any deadline, and the loop,
\* which only the deferred cancel() could stop, has exited.
C6_Witness_ExitedAfterError ==
    /\ mpc = "returned" /\ ret = "error" /\ ~ctxDone
    /\ rpc = "exited"

\* C7: the render loop issues a fetch only in the step that takes a tick out
\* of the channel, and issues none once a tick interval has gone by since
\* waitCtx was done; once the loop has taken the Done case it stays stopped and
\* issues nothing more.
C7_NoFetchAfterStop ==
    [][/\ (rpc' = "fetch" /\ rpc # "fetch") =>
              (rpc = "select" /\ tickReady /\ ~tickReady' /\ ~elapsed)
       /\ rpc = "exited" => rpc' = "exited"]_vars

\* C7 witness: cancel() has run and a tick interval has gone by, a tick is
\* pending in the channel, and the loop has left without taking it.
C7_Witness_ExitedWithTickPending ==
    /\ cancelled /\ ~ctxDone /\ elapsed
    /\ rpc = "exited" /\ tickReady

\* C8: a fetch that ends, with an error or not, leaves the loop at its select
\* for the next tick, and the wait function returns exactly what the
\* platform's wait call returned.
C8_TickErrorIsSwallowed ==
    [][/\ (rpc = "fetch" /\ rpc' # "fetch") => rpc' = "select"
       /\ mpc' = "returned" => ret' = waitRes']_vars

\* C8 witness: a fetch issued under a live context failed, the loop is back at
\* its select, and the wait function has returned success.
C8_Witness_SuccessDespiteTickError ==
    /\ tickErr /\ inflightLive
    /\ rpc = "select"
    /\ mpc = "returned" /\ ret = "nil"

\* C9: the step of a tick writes only erase sequences, as many as the lines
\* the previous fetch wrote (none before the first fetch) when standard output
\* is a terminal and none when it is not; no other step writes any.
C9_EraseMatchesPrinted ==
    [][/\ (rpc = "select" /\ rpc' = "fetch") =>
              /\ \A i \in 1 .. Len(Appended) : Appended[i].w = "erase"
              /\ Len(Appended) = IF isTerminal THEN printed ELSE 0
       /\ ~(rpc = "select" /\ rpc' = "fetch") =>
              \A i \in 1 .. Len(Appended) : Appended[i].w # "erase"]_vars

\* C9 witness: on a terminal, a tick has just erased the lines (at least two)
\* that the previous fetch printed.
C9_Witness_ErasedPreviousLines ==
    /\ isTerminal /\ rpc = "fetch" /\ printed >= 2
    /\ Len(written) = printed
    /\ \A i \in 1 .. printed : written[i].w = "erase"

\* C10: a fetch that returns a service record prints an event of that record
\* if and only if the event was created strictly after startedAt.
C10_EventsAfterStartOnly ==
    [][(kind = "service" /\ rpc = "fetch" /\ rpc' = "select"
            /\ ~resp'.err /\ Len(resp'.Services) > 0) =>
          LET evs == resp'.Services[1].Events
          IN \A t \in Times :
                (\E i \in 1 .. Len(Appended) :
                    Appended[i].w = "event" /\ Appended[i].at = t)
                <=> (t > startedAt /\ \E j \in 1 .. Len(evs) : evs[j].CreatedAt = t)]_vars

\* C10 witness: the last fetch returned an event created at startedAt and one
\* created after it, and wrote the later one only.
C10_Witness_OnlyLaterEventPrinted ==
    /\ kind = "service" /\ rpc = "select" /\ ~resp.err /\ Len(resp.Services) > 0
    /\ LET evs == resp.Services[1].Events
       IN /\ \E j \in 1 .. Len(evs) : evs[j].CreatedAt = startedAt
          /\ \E j \in 1 .. Len(evs) : evs[j].CreatedAt > startedAt
    /\ \E i \in 1 .. Len(written) : written[i].w = "event" /\ written[i].at > startedAt
    /\ \A i \in 1 .. Len(written) : written[i].w = "event" => written[i].at > startedAt

\* Position of target t in the listing, 0 when it is not listed.
TargetIndex(t) ==
    IF \E i \in 1 .. Len(scalableTargets) : scalableTargets[i] = t
    THEN CHOOSE i \in 1 .. Len(scalableTargets) : scalableTargets[i] = t
    ELSE 0

\* C11: with an empty listing suspendAutoScaling succeeds without any
\* RegisterScalableTarget call; with N targets whose updates all succeed it
\* has issued exactly N calls, the i-th for the i-th listed target, each with
\* the three suspension flags equal to the argument.
C11_OneUpdatePerTarget ==
    (asPc = "done" /\ asRet = AsErrNone) =>
        /\ Len(registered) = Len(scalableTargets)
        /\ \A i \in 1 .. Len(registered) :
              /\ registered[i].ResourceId = scalableTargets[i]
              /\ registered[i].SuspendedState.DynamicScalingInSuspended = suspend
              /\ registered[i].SuspendedState.DynamicScalingOutSuspended = suspend
              /\ registered[i].SuspendedState.ScheduledScalingSuspended = suspend

\* C11 witness: suspendAutoScaling(true) succeeded over a listing of at least
\* two targets whose scaling was running, and every one of them is suspended.
C11_Witness_AllTargetsUpdated ==
    /\ asPc = "done" /\ asRet = AsErrNone /\ suspend
    /\ Len(scalableTargets) >= 2 /\ Len(registered) = Len(scalableTargets)
    /\ \A i \in 1 .. Len(scalableTargets) :
          remote[scalableTargets[i]] = SuspendedState(TRUE)
    /\ \E t \in Targets : TargetIndex(t) = 0 /\ remote[t] = SuspendedState(FALSE)

\* C12: when the update of the k-th target fails, the error names that
\* target, exactly k calls were issued (for targets 1..k in order, none for a
\* later target and none that undoes an earlier update), and targets 1..k-1
\* keep the state the argument asked for.
C12_FailureStopsLoop ==
    (asPc = "done" /\ asRet.err = "failed to register scalable target") =>
        LET k == TargetIndex(asRet.target)
        IN /\ k >= 1
           /\ Len(registered) = k
           /\ \A i \in 1 .. k :
                 registered[i] = [ResourceId |-> scalableTargets[i],
                                  SuspendedState |-> SuspendedState(suspend)]
           /\ \A i \in 1 .. k - 1 :
                 remote[scalableTargets[i]] = SuspendedState(suspend)

\* C12 witness: the update of the second of three targets failed; the first
\* target is suspended, the third was never touched.
C12_Witness_SecondOfThreeFailed ==
    /\ asPc = "done" /\ asRet.err = "failed to register scalable target"
    /\ suspend
    /\ Len(scalableTargets) >= 3 /\ asRet.target = scalableTargets[2]
    /\ Len(registered) = 2
    /\ remote[scalableTargets[1]] = SuspendedState(TRUE)
    /\ remote[scalableTargets[3]] = SuspendedState(FALSE)

\* C13: every request RegisterTaskDefinition sends has exactly the allow-listed
\* fields, each with the value the definition it was built from has (so no
\* revision, status or ARN of the input is in it); and the request built from
\* the definition a registration returned equals the request of that
\* registration.
C13_RequestIsAllowListedSubset ==
    /\ \A i \in 1 .. Len(regInputs) : DOMAIN regInputs[i] = AllowListed
    /\ Len(regInputs) >= 1 =>
          \A f \in AllowListed : regInputs[Len(regInputs)][f] = td[f]
    /\ \A i \in 1 .. Len(regInputs) - 1 : regInputs[i + 1] = regInputs[i]

\* C13 witness: a definition that carried a revision, a status and an ARN was
\* registered, the definition that came back (with a newer revision) was
\* registered in turn, and both requests are the same.
C13_Witness_RoundTrip ==
    /\ Len(regInputs) = 2 /\ regInputs[1] = regInputs[2]
    /\ td.Revision >= 2 /\ td.Status = "ACTIVE" /\ td.TaskDefinitionArn # NoArn
    /\ newTd.Revision > td.Revision
    /\ \E f, g \in AllowListed : td[f] = "given" /\ td[g] = "nil"

\* The errors of loading a definition and of describing the service or its
\* task definition.
LoadOrDescribeErrors ==
    {"failed to load service definition", "failed to load task definition",
     "failed to describe service status", "failed to describe task definition",
     "failed to describe service", "service is not found",
     "failed to describe autoscaling"}

\* The mutating calls issued so far.
MutatingCalls == {i \in 1 .. Len(remoteCalls) : remoteCalls[i].call \in Mutating}

\* No wait function was called and no render goroutine was started.
NoWaitStarted == mpc = "start" /\ rpc = "none" /\ waiterOpts = "none"

\* A line of the log was written by the last step.
Wrote(w) == \E i \in 1 .. Len(written) : written[i].w = w

\* With the dry-run flag no mutating call is issued and no wait is started.
DryRunIssuesNothing ==
    opt.DryRun => (MutatingCalls = {} /\ regInputs = <<>> /\ NoWaitStarted)

\* C14 (as claimed): with the dry-run flag, Create, Delete, Run and Register
\* issue no mutating call and start no wait, and return success after the
\* line DRY RUN OK unless loading or describing failed.
C14_DryRunSucceedsUnlessLoadFails ==
    /\ DryRunIssuesNothing
    /\ (opt.DryRun /\ cpc = "done") =>
          /\ cmdRet = "nil" \/ cmdRet \in LoadOrDescribeErrors
          /\ cmdRet = "nil" => Wrote("DRY RUN OK")

\* C14 (amended): with the dry-run flag, Create, Delete, Run and Register
\* issue no mutating call and start no wait, and return success after the
\* line DRY RUN OK unless parsing the overrides of Run, loading or describing
\* failed.
C14_DryRunSucceedsUnlessPreparationFails ==
    /\ DryRunIssuesNothing
    /\ (opt.DryRun /\ cpc = "done") =>
          /\ cmdRet = "nil" \/ cmdRet \in LoadOrDescribeErrors \cup {"invalid overrides"}
          /\ cmdRet = "nil" => Wrote("DRY RUN OK")

\* C14 witness: a dry run of Run that loads the definition (which a real run
\* would register) has returned success after DRY RUN OK, with no call issued.
C14_Witness_DryRunOfRun ==
    /\ cmd = "Run" /\ opt.DryRun /\ ~opt.SkipTaskDefinition
    /\ cpc = "done" /\ cmdRet = "nil" /\ Wrote("DRY RUN OK")
    /\ td = LoadedTaskDefinition /\ remoteCalls = <<>> /\ NoWaitStarted

\* The platform's wait primitive has been called.
PlatformWaitCalled == mpc \in {"blocked", "unblocked", "returned"}

\* C15 (as claimed): whenever a platform wait primitive has been called, for a
\* service or for a task, it was given an explicit delay and the max-attempts
\* computed from the configured timeout.
C15_WaitersGetExplicitOptions ==
    PlatformWaitCalled =>
        (waiterOpts = "explicit" /\ attempts = WaiterMaxAttempts(timeout))

\* The render goroutine was never started and no fetch was ever issued.
NoRenderer ==
    /\ rpc = "none"
    /\ fires = 0 /\ ~tickReady
    /\ resp = NoResp /\ ~tickErr /\ lines = 0 /\ printed = 0

\* C16: WaitRunTask has a render goroutine (the only issuer of log fetches)
\* exactly when the log configuration is present, its driver is awslogs and
\* it has a stream prefix; in every other case there is none at any time, and
\* what WaitRunTask returns is what the platform's wait returned.
C16_LogTailingOnlyIfAwslogs ==
    kind = "task" =>
        /\ (lc.present /\ lc.LogDriver = "awslogs" /\ lc.StreamPrefix)
              => (mpc # "start" <=> rpc # "none")
        /\ ~(lc.present /\ lc.LogDriver = "awslogs" /\ lc.StreamPrefix)
              => (NoRenderer /\ (mpc = "returned" => ret = waitRes))

\* C16 witness: with the awslogs driver but no stream prefix, WaitRunTask has
\* returned success without a render goroutine and without any fetch.
C16_Witness_NoPrefixPlainWait ==
    /\ kind = "task"
    /\ lc.present /\ lc.LogDriver = "awslogs" /\ ~lc.StreamPrefix
    /\ mpc = "returned" /\ ret = "nil"
    /\ NoRenderer

\* The container Run looks at: the watched one when the task has it, the
\* first one otherwise.
Inspected ==
    LET cs == taskOut.Containers
    IN IF \E i \in 1 .. Len(cs) : cs[i].Name = watchContainer
       THEN cs[CHOOSE i \in 1 .. Len(cs) : cs[i].Name = watchContainer]
       ELSE cs[1]

\* Exit code zero or absent, and no failure reason.
ExitedCleanly(c) == c.ExitCode \in {<<>>, <<0>>} /\ c.Reason = "nil"

\* DescribeTasks answered with the task, without an error or a failure.
TaskDescribed == ~taskOut.err /\ ~taskOut.Failures

\* C17: 'Run task completed!' is written only by a Run that returns success
\* after the task stopped; such a Run returns success only if DescribeTasks
\* reported no failure and the inspected container exited cleanly, and it
\* does return success then (unless the command's deadline has passed).
C17_SuccessOnlyIfContainerClean ==
    /\ Wrote("Run task completed!") =>
          (cmd = "Run" /\ cpc = "done" /\ ret = "nil" /\ cmdRet = "nil")
    /\ (cmd = "Run" /\ cpc = "done" /\ mpc = "returned" /\ ret = "nil") =>
          /\ cmdRet = "nil" => (TaskDescribed /\ ExitedCleanly(Inspected))
          /\ cmdRet = "nil" => Wrote("Run task completed!")
          /\ (~ctxDone /\ TaskDescribed /\ ExitedCleanly(Inspected)) => cmdRet = "nil"

\* C17 witness: every platform call succeeded and the first container exited
\* with 0, but the watched container is the second one and exited with 1:
\* Run returned an error.
C17_Witness_WatchedContainerFailed ==
    /\ cmd = "Run" /\ cpc = "done" /\ ret = "nil" /\ ~ctxDone /\ TaskDescribed
    /\ Len(taskOut.Containers) = 2
    /\ taskOut.Containers[1].ExitCode = <<0>> /\ taskOut.Containers[1].Reason = "nil"
    /\ taskOut.Containers[2].Name = watchContainer
    /\ taskOut.Containers[2].ExitCode = <<1>>
    /\ cmdRet = "Container: Exit Code"
    /\ Len(remoteCalls) >= 1 /\ remoteCalls[Len(remoteCalls)].call = "RunTask"

\* A DeleteService call was issued.
DeleteServiceIssued ==
    \E i \in 1 .. Len(remoteCalls) : remoteCalls[i].call = "DeleteService"

\* C18: Delete issues DeleteService (at most once, for the described service)
\* only with the force flag or after the service's name was typed at the
\* prompt; after any other answer it returns 'confirmation failed' without
\* the call; and it issues no call when describing the service failed or
\* found no service.
C18_DeleteNeedsConfirmation ==
    cmd = "Delete" =>
        /\ DeleteServiceIssued =>
              /\ opt.Force \/ typed = ServiceName
              /\ remoteCalls = <<Call("DeleteService", NoArn, ServiceName)>>
        /\ (~opt.Force /\ typed # "none" /\ typed # ServiceName) =>
              (cmdRet = "confirmation failed" /\ ~DeleteServiceIssued)
        /\ cmdRet \in {"failed to describe service", "service is not found",
                        "failed to describe autoscaling"} => ~DeleteServiceIssued
        /\ opt.Force => typed = "none"

\* C18 witness: without force, another name was typed: Delete returned
\* 'confirmation failed' after 'Aborted' and issued no call.
C18_Witness_WrongNameTyped ==
    /\ cmd = "Delete" /\ ~opt.Force /\ ~opt.DryRun
    /\ typed = OtherName
    /\ cpc = "done" /\ cmdRet = "confirmation failed" /\ Wrote("Aborted")
    /\ remoteCalls = <<>>

\* The success line of Wait and Create is in what the last step wrote.
WroteCompleted == Wrote("Service is stable now. Completed!")

\* Wait or Create has called WaitServiceStable and has not returned yet.
WaitingForStable == cmd \in {"Wait", "Create"} /\ cpc = "wait"

\* C19: the success line is written only by a Wait or Create whose stability
\* wait returned success; the platform wait never polls more often than the
\* computed attempts; a Wait or Create that waits always returns; and when
\* the wait failed it returns the wrapped error without the success line.
C19_CompletedOnlyIfStable ==
    /\ [](WroteCompleted =>
            (cmd \in {"Wait", "Create"} /\ waitRes = "nil" /\ ret = "nil"
             /\ cmdRet = "nil"))
    /\ [](waiterOpts = "explicit" => polls + 1 <= attempts)
    /\ []((cmd \in {"Wait", "Create"} /\ cpc = "done" /\ mpc = "returned"
            /\ ret # "nil") =>
            cmdRet = IF cmd = "Wait" THEN "the service still unstable"
                                    ELSE "failed to wait service stable")
    /\ (WaitingForStable ~> (cpc = "done"))

\* C19 witness: the service was unstable at every poll the attempts allow,
\* no deadline passed, and Wait returned 'the service still unstable'.
C19_Witness_AttemptsExhausted ==
    /\ cmd = "Wait" /\ cpc = "done" /\ ~ctxDone
    /\ attempts >= 2 /\ polls + 1 = attempts
    /\ ret = "error" /\ cmdRet = "the service still unstable"
    /\ ~WroteCompleted

\* s is a prefix of t.
IsPrefix(s, t) == Len(s) <= Len(t) /\ s = SubSeq(t, 1, Len(s))

\* The errors Create wraps around a failed step.
CreateStepErrors ==
    {"failed to register task definition", "failed to create service",
     "failed to wait service stable"}

\* C20: a Create without dry-run issues RegisterTaskDefinition, then
\* CreateService with the ARN that registration returned, each once at most,
\* and calls WaitServiceStable only after both succeeded and without the
\* no-wait flag; a failed step is returned wrapped and nothing follows it;
\* with no-wait it returns success after CreateService with no wait and no
\* render goroutine.
C20_CreateCallOrder ==
    (cmd = "Create" /\ ~opt.DryRun) =>
        /\ IsPrefix(remoteCalls,
                    <<Call("RegisterTaskDefinition", NoArn, "nil"),
                      Call("CreateService", newTd.TaskDefinitionArn, ServiceName)>>)
        /\ Len(regInputs) = IF remoteCalls = <<>> THEN 0 ELSE 1
        /\ Len(remoteCalls) = 2 =>
              (newTd.TaskDefinitionArn # NoArn /\ newTd.Revision = latestRevision)
        /\ (cpc = "wait" \/ ~NoWaitStarted) =>
              (Len(remoteCalls) = 2 /\ ~opt.NoWait
               /\ cmdRet \notin {"failed to register task definition",
                                  "failed to create service"})
        /\ cmdRet = "failed to register task definition" =>
              (Len(remoteCalls) = 1 /\ newTd = NoTd /\ NoWaitStarted)
        /\ cmdRet = "failed to create service" =>
              (Len(remoteCalls) = 2 /\ NoWaitStarted)
        /\ cmdRet = "failed to wait service stable" =>
              (Len(remoteCalls) = 2 /\ mpc = "returned" /\ ret # "nil")
        /\ (opt.NoWait /\ cpc = "done" /\ Len(remoteCalls) = 2
               /\ cmdRet \notin CreateStepErrors) => cmdRet = "nil"
        /\ opt.NoWait => NoWaitStarted

\* C20 witness: a Create without no-wait registered revision 2, created the
\* service with that revision's ARN, waited, and returned success.
C20_Witness_RegisteredCreatedWaited ==
    /\ cmd = "Create" /\ ~opt.DryRun /\ ~opt.NoWait
    /\ Len(remoteCalls) = 2
    /\ remoteCalls[1].call = "RegisterTaskDefinition"
    /\ remoteCalls[2].call = "CreateService"
    /\ remoteCalls[2].arn = newTd.TaskDefinitionArn /\ newTd.Revision = 2
    /\ mpc = "returned" /\ ret = "nil"
    /\ cpc = "done" /\ cmdRet = "nil"


\* What the render goroutine writes: the erase sequences of its erase loop and
\* the deployment, event and log lines of its fetch.
RendererOutput == {"erase", "deployment", "event", "logline"}

\* The last step wrote output of the render goroutine.
WroteRendererOutput == \E w \in RendererOutput : Wrote(w)

\* C21: once WaitServiceStable or WaitRunTask has returned to its caller, no
\* step writes an erase sequence, a status line or a log line to standard
\* output, in whatever order the render goroutine's steps and the return
\* interleave.
C21_RendererSilentAfterReturn ==
    mpc = "returned" => ~WroteRendererOutput

\* LoadServiceDefinition has returned a definition.
ServiceDefinitionLoaded == svdPc = "done" /\ svdErr = "nil"

\* The scheduling strategy is REPLICA, named or by default.
IsReplica(c) == c.SchedulingStrategy \in {"nil", "REPLICA"}

\* C22: the definition LoadServiceDefinition returns has the desired count 1
\* where the strategy is REPLICA or unset and the file gives no count, the
\* file's count where the strategy is REPLICA or unset and the file gives one,
\* and no count where the strategy is DAEMON.
C22_DefaultCountOnlyIfNoneGiven ==
    ServiceDefinitionLoaded =>
        /\ (IsReplica(svdFile) /\ svdFile.DesiredCount = NilCount) =>
              svd.DesiredCount = <<1>>
        /\ (IsReplica(svdFile) /\ svdFile.DesiredCount # NilCount) =>
              svd.DesiredCount = svdFile.DesiredCount
        /\ svdFile.SchedulingStrategy = "DAEMON" => svd.DesiredCount = NilCount

====
